---- MODULE Spec2Model ----
(***************************************************************************)
(* Model of the timelines-data server plugin (server-plugin/index.js):     *)
(* the graph engine (preprocessChatSessions, groupMessagesByContent,       *)
(* createNode, generateUniqueColor, buildGraph, highlightCheckpointPaths)  *)
(* and the request handlers around it (bulk-fetch, swipes,                 *)
(* invalidate-cache) with the two module-level caches.                     *)
(*                                                                         *)
(* Conventions.  A message text is a sequence of tokens; the tokens "CR"   *)
(* and "LF" stand for the characters \r and \n, "MARK" for the legacy      *)
(* phrase 'Bookmark created! Click here to open the bookmark chat' and     *)
(* the two tokens "FN=", s for the anchor text file_name="s".              *)
(* JavaScript's undefined and null are the strings Undefined and Null.     *)
(* Object identity of node and edge data objects is their id: cyElements   *)
(* holds [group, ref] entries and nodeData / edgeData hold the objects.    *)
(***************************************************************************)
EXTENDS Integers, Sequences, FiniteSets, TLC

VARIABLES
    chatHistory,     \* engine input: ordered mapping file_name -> messages
    pc,              \* position of the engine invocation
    cyElements,      \* the element list (buildGraph's cyElements / rawData)
    nodeData,        \* node data objects, by id
    edgeData,        \* edge data objects, by id
    parentSwipeData, \* buildGraph's parentSwipeData (the VariantSet map)
    hl,              \* highlightCheckpointPaths' loop variables
    hlLog,           \* history: the highlight decorations applied so far
    disk,            \* the chat directories: directory -> file -> lines
    responseCache,   \* the module's responseCache: cache key -> entry
    swipeCache,      \* the module's swipeCache: cache key -> entry
    now,             \* Date.now(), in milliseconds
    reqs,            \* the bulk-fetch requests received, in order of arrival
    invalidations,   \* the invalidate-cache requests handled, in order
    swipeReqs,       \* the swipes requests received, with their responses
    unfetched,       \* history: the cache keys cleared by an invalidate-cache
                     \* without subject and not requested since
    mathRandom,      \* the state of Math.random: the number of calls made
    invocations      \* number of engine invocations started

engineVars == <<chatHistory, pc, cyElements, nodeData, edgeData, parentSwipeData, hl, hlLog>>

serverVars == <<disk, responseCache, swipeCache, now, reqs, invalidations, swipeReqs, unfetched>>

runtimeVars == <<mathRandom, invocations>>

vars == <<engineVars, serverVars, runtimeVars>>

----------------------------------------------------------------------------
(* Bounds of the model. *)

\* number of log files an input mapping may hold
NumLogs == 2
\* number of messages an input mapping may hold in all (SpecEngine)
MaxMessages == 3
\* number of messages an input mapping may hold in all (SpecCheckpoint)
MaxTraceMessages == 4
\* number of bulk-fetch and swipes requests the server receives in all
MaxRequests == 2
\* number of invalidate-cache requests the server receives
MaxInvalidations == 1
\* number of clock ticks
MaxTicks == 2
\* total number of messages in the logs of an invocation that is repeated
MaxColorMessages == 3
\* number of invocations of the engine on one input
MaxInvocations == 2
\* total number of messages in the logs of an invocation with legacy markers
MaxLegacyMessages == 3
\* total number of messages in the logs of an invocation with alternate texts
MaxSwipeMessages == 4

\* messages of the log whose checkpoints are traced over many hops
MaxPathMessages == 24

----------------------------------------------------------------------------
(* JavaScript values. *)

Undefined == "undefined"
Null == "null"

\* a colour property holding null
NoColor == <<Null>>

\* the value of message.mes when the property is absent
MesUndefined == <<"<mes undefined>">>

\* names every object inherits from Object.prototype: groups[text] is truthy
\* for them although nothing was stored
PrototypeKeys == { <<"constructor">>, <<"toString">>, <<"__proto__">> }

\* Array.prototype.indexOf: 0-based position of the first occurrence, or -1
IndexOf(seq, x) ==
    IF \E i \in DOMAIN seq : seq[i] = x
    THEN (CHOOSE i \in DOMAIN seq : seq[i] = x /\ \A j \in 1..(i-1) : seq[j] # x) - 1
    ELSE -1

\* [...new Set(seq)]: first occurrences, in order
RECURSIVE UniqueSeq(_)
UniqueSeq(seq) ==
    IF seq = <<>> THEN <<>>
    ELSE LET front == UniqueSeq(SubSeq(seq, 1, Len(seq) - 1))
             last == seq[Len(seq)]
         IN IF \E i \in DOMAIN front : front[i] = last THEN front ELSE Append(front, last)

\* Array.prototype.filter
FilterSeq(seq, Keep(_)) == SelectSeq(seq, Keep)

\* concatenation of a sequence of sequences
RECURSIVE Flatten(_)
Flatten(seqs) == IF seqs = <<>> THEN <<>> ELSE Head(seqs) \o Flatten(Tail(seqs))

\* the value of an expression computed once: the element of a singleton
The(singleton) == CHOOSE v \in singleton : TRUE

\* the set of elements of a sequence
Range(seq) == { seq[i] : i \in DOMAIN seq }

----------------------------------------------------------------------------
(* Texts. *)

\* String.prototype.replace(/\r\n/g, '\n'): one left-to-right pass
RECURSIVE NormalizeNewlines(_)
NormalizeNewlines(text) ==
    IF Len(text) = 0 THEN <<>>
    ELSE IF Len(text) >= 2 /\ text[1] = "CR" /\ text[2] = "LF"
         THEN <<"LF">> \o NormalizeNewlines(SubSeq(text, 3, Len(text)))
         ELSE <<text[1]>> \o NormalizeNewlines(Tail(text))

\* mes.includes('Bookmark created! Click here to open the bookmark chat')
IncludesLegacyMarker(text) == \E i \in DOMAIN text : text[i] = "MARK"

\* mes.match(/file_name=\"(.*?)\"/): the first anchor's name, or null
LegacyAnchorTarget(text) ==
    IF \E i \in 1..(Len(text) - 1) : text[i] = "FN="
    THEN text[(CHOOSE i \in 1..(Len(text) - 1) :
                 text[i] = "FN=" /\ \A j \in 1..(i-1) : text[j] # "FN=") + 1]
    ELSE Null

\* `${bookmarkName}.jsonl`
JsonlName(bookmarkName) == bookmarkName \o ".jsonl"

----------------------------------------------------------------------------
(* The ordered mapping chatHistory: a sequence of [file_name, messages]. *)

FileNames(ch) == { ch[i].file_name : i \in DOMAIN ch }

MessagesOf(ch, f) == (CHOOSE i \in DOMAIN ch : ch[i].file_name = f)

\* convertToCytoscapeElements: allChatFileNamesAndLengths
ChatLengths(ch) ==
    [f \in FileNames(ch) |-> Len(ch[MessagesOf(ch, f)].messages)]

MaxOfSet(S) == IF S = {} THEN 0 ELSE CHOOSE m \in S : \A n \in S : n <= m

\* preprocessChatSessions: allChats[d+1] lists, in the mapping's order, the
\* message at position d of every log that has one
preprocessChatSessions(ch) ==
    [d1 \in 1..MaxOfSet({ Len(ch[i].messages) : i \in DOMAIN ch }) |->
        LET hasDepth(entry) == Len(entry.messages) >= d1
            contributors == FilterSeq(ch, hasDepth)
        IN [k \in DOMAIN contributors |->
              [file_name |-> contributors[k].file_name,
               index |-> d1 - 1,
               message |-> contributors[k].messages[d1]]]]

----------------------------------------------------------------------------
(* groupMessagesByContent *)

\* whether the body of the try block throws for this message: mes is not a
\* string, or groups[mes] is an inherited property without push
GroupingThrows(message) ==
    \/ message.mes = MesUndefined
    \/ NormalizeNewlines(message.mes) \in PrototypeKeys

\* the groups object as a sequence of [text, members] in insertion order;
\* a member is [file_name, index, message] with index the position in the
\* depth's message list and message.mes normalized
RECURSIVE GroupFrom(_, _, _)
GroupFrom(messages, i, groups) ==
    IF i > Len(messages) THEN groups
    ELSE LET messageObj == messages[i]
             message == messageObj.message
         IN IF GroupingThrows(message) THEN GroupFrom(messages, i + 1, groups)
            ELSE LET text == NormalizeNewlines(message.mes)
                     member == [file_name |-> messageObj.file_name,
                                index |-> i - 1,
                                message |-> [message EXCEPT !.mes = text]]
                     at == IndexOf([g \in DOMAIN groups |-> groups[g].text], text)
                 IN IF at = -1
                    THEN GroupFrom(messages, i + 1,
                                   Append(groups, [text |-> text, members |-> <<member>>]))
                    ELSE GroupFrom(messages, i + 1,
                                   [groups EXCEPT ![at + 1].members = Append(@, member)])

groupMessagesByContent(messages) == GroupFrom(messages, 1, <<>>)

----------------------------------------------------------------------------
(* 32-bit words.  A word is <<hi, lo>>, its two 16-bit halves; the          *)
(* operators below are JavaScript's on the 32-bit pattern of a number.     *)

Word(hi, lo) == <<hi, lo>>

\* x ^ y on n-bit numbers
RECURSIVE XorBits(_, _, _)
XorBits(x, y, n) ==
    IF n = 0 THEN 0
    ELSE (((x % 2) + (y % 2)) % 2) + (2 * XorBits(x \div 2, y \div 2, n - 1))

\* x | y on n-bit numbers
RECURSIVE OrBits(_, _, _)
OrBits(x, y, n) ==
    IF n = 0 THEN 0
    ELSE (IF (x % 2) + (y % 2) > 0 THEN 1 ELSE 0) + (2 * OrBits(x \div 2, y \div 2, n - 1))

XorWord(x, y) == Word(XorBits(x[1], y[1], 16), XorBits(x[2], y[2], 16))

OrWord(x, y) == Word(OrBits(x[1], y[1], 16), OrBits(x[2], y[2], 16))

\* x >>> n, 0 < n < 32
ShrWord(x, n) ==
    IF n >= 16 THEN Word(0, x[1] \div (2^(n - 16)))
    ELSE Word(x[1] \div (2^n), (x[2] \div (2^n)) + ((x[1] % (2^n)) * (2^(16 - n))))

\* x << n, 0 < n < 32
ShlWord(x, n) ==
    IF n >= 16 THEN Word((x[2] * (2^(n - 16))) % 65536, 0)
    ELSE Word(((x[1] * (2^n)) % 65536) + (x[2] \div (2^(16 - n))), (x[2] * (2^n)) % 65536)

\* x + y | 0
AddWord(x, y) ==
    Word((x[1] + y[1] + ((x[2] + y[2]) \div 65536)) % 65536, (x[2] + y[2]) % 65536)

\* Math.imul(x, y): the low 32 bits of the product, by bytes
imul(x, y) ==
    LET a0 == x[2] % 256  a1 == x[2] \div 256  a2 == x[1] % 256  a3 == x[1] \div 256
        b0 == y[2] % 256  b1 == y[2] \div 256  b2 == y[1] % 256  b3 == y[1] \div 256
        c0 == a0 * b0
        c1 == (a0 * b1) + (a1 * b0) + (c0 \div 256)
        c2 == (a0 * b2) + (a1 * b1) + (a2 * b0) + (c1 \div 256)
        c3 == (a0 * b3) + (a1 * b2) + (a2 * b1) + (a3 * b0) + (c2 \div 256)
    IN Word(((c3 % 256) * 256) + (c2 % 256), ((c1 % 256) * 256) + (c0 % 256))

----------------------------------------------------------------------------
(* generateUniqueColor: the colour drawn for a checkpoint's text. *)

\* String.prototype.charCodeAt over a text: the code units of its tokens
TokenCodes(token) ==
    CASE token = "x" -> <<120>>
      [] token = "y" -> <<121>>
      [] token = "z" -> <<122>>
      [] token = "w" -> <<119>>
      [] token = "CR" -> <<13>>
      [] token = "LF" -> <<10>>
      [] token = "a" -> <<97>>
      [] token = "b" -> <<98>>
      [] token = "zz" -> <<122, 122>>
      [] token = "constructor" -> <<99, 111, 110, 115, 116, 114, 117, 99, 116, 111, 114>>
      [] token = "toString" -> <<116, 111, 83, 116, 114, 105, 110, 103>>
      [] token = "__proto__" -> <<95, 95, 112, 114, 111, 116, 111, 95, 95>>
      [] token = "FN=" -> <<102, 105, 108, 101, 95, 110, 97, 109, 101, 61>>
      [] token = "MARK" ->
           <<66, 111, 111, 107, 109, 97, 114, 107, 32, 99, 114, 101, 97, 116, 101, 100,
             33, 32, 67, 108, 105, 99, 107, 32, 104, 101, 114, 101, 32, 116, 111, 32,
             111, 112, 101, 110, 32, 116, 104, 101, 32, 98, 111, 111, 107, 109, 97,
             114, 107, 32, 99, 104, 97, 116>>

CharCodes(text) == Flatten([i \in DOMAIN text |-> TokenCodes(text[i])])

\* the multipliers of cyrb128
CyrbMul == << Word(9115, 38427), Word(43790, 38793), Word(14515, 19173), Word(41443, 35731) >>

\* the initial h1..h4 of cyrb128
CyrbInit == << Word(27145, 58983), Word(47975, 44677), Word(15470, 62322), Word(42319, 62778) >>

\* one iteration of the loop of cyrb128, h being <<h1, h2, h3, h4>> before it
CyrbStep(h, k) ==
    The({ << h1,
             XorWord(h[3], imul(XorWord(h[2], k), CyrbMul[2])),
             XorWord(h[4], imul(XorWord(h[3], k), CyrbMul[3])),
             XorWord(h1, imul(XorWord(h[4], k), CyrbMul[4])) >> :
          h1 \in { XorWord(h[2], imul(XorWord(h[1], k), CyrbMul[1])) } })

\* the iterations lo..hi of the loop of cyrb128, h being <<h1, h2, h3, h4>>
\* before them: the first half of the iterations, then the second half
RECURSIVE CyrbLoop(_, _, _, _)
CyrbLoop(codes, lo, hi, h) ==
    IF lo > hi THEN h
    ELSE IF lo = hi THEN CyrbStep(h, Word(0, codes[lo]))
    ELSE The({ CyrbLoop(codes, ((lo + hi) \div 2) + 1, hi, half) :
               half \in { CyrbLoop(codes, lo, (lo + hi) \div 2, h) } })

\* h1 ^= (h2 ^ h3 ^ h4), h2 ^= h1, h3 ^= h1, h4 ^= h1
CyrbCombine(h1, h2, h3, h4) ==
    The({ << g1, XorWord(h2, g1), XorWord(h3, g1), XorWord(h4, g1) >> :
          g1 \in { XorWord(h1, XorWord(h2, XorWord(h3, h4))) } })

\* the statements of cyrb128 after its loop, h being the loop's result
CyrbFinish(h) ==
    The({ The({ CyrbCombine(h1, h2, h3, h4) :
                h3 \in { imul(XorWord(h1, ShrWord(h[3], 17)), CyrbMul[3]) },
                h4 \in { imul(XorWord(h2, ShrWord(h[4], 19)), CyrbMul[4]) } }) :
          h1 \in { imul(XorWord(h[3], ShrWord(h[1], 18)), CyrbMul[1]) },
          h2 \in { imul(XorWord(h[4], ShrWord(h[2], 22)), CyrbMul[2]) } })

cyrb128(codes) ==
    The({ CyrbFinish(h) : h \in { CyrbLoop(codes, 1, Len(codes), CyrbInit) } })

\* one call of the generator sfc32 returns: [t, state], state being <<a, b, c, d>>
sfc32(state) ==
    The({ [t |-> t,
           state |-> << XorWord(state[2], ShrWord(state[2], 9)),
                        AddWord(state[3], ShlWord(state[3], 3)),
                        AddWord(OrWord(ShlWord(state[3], 21), ShrWord(state[3], 11)), t),
                        AddWord(state[4], Word(0, 1)) >>] :
          t \in { AddWord(AddWord(state[1], state[2]), state[4]) } })

\* mutant of randomRGBValue: the 16 high bits of t are not scaled to a byte
randomRGBValueHighHalf(t) == t[1]

\* Math.floor(random() * 256) for random() = (t >>> 0) / 4294967296
randomRGBValue(t) == t[1] \div 256

\* the values Math.floor(Math.random() * 256) takes call after call; the
\* state of Math.random is a position in this cycle
MathRandomValues == <<7, 200, 31, 7, 200, 32>>

MathRandomValue(position) == MathRandomValues[(position % Len(MathRandomValues)) + 1]

\* the number of Math.random() calls generateUniqueColor(str) makes
MathRandomCalls(str) == IF str = <<>> THEN 3 ELSE 0

\* the template literal of generateUniqueColor: three calls of the generator
\* seeded with seed
SeededColor(seed) ==
    The({ The({ The({ <<"rgb", randomRGBValue(first.t), randomRGBValue(second.t),
                        randomRGBValue(third.t)>> :
                      third \in { sfc32(second.state) } }) :
                second \in { sfc32(first.state) } }) :
          first \in { sfc32(seed) } })

\* generateUniqueColor(str), Math.random being at position random
generateUniqueColor(str, random) ==
    IF str # <<>>
    THEN The({ SeededColor(seed) : seed \in { cyrb128(CharCodes(str)) } })
    ELSE <<"rgb", MathRandomValue(random), MathRandomValue(random + 1),
           MathRandomValue(random + 2)>>

----------------------------------------------------------------------------
(* createNode *)

\* the predicate of group.find in createNode
IsBookmarkMessage(message) ==
    \/ message.is_system /\ IncludesLegacyMarker(message.mes)
    \/ message.bookmark_link # Undefined /\ message.bookmark_link # ""

HasBookmarkLink(message) ==
    message.bookmark_link # Undefined /\ message.bookmark_link # ""

\* mutant of IsDeadLink: the dead-link check is left out
IsDeadLinkNever(detected, bookmarkName, allChatFileNamesAndLengths) == FALSE

\* isBookmark && !allChatFileNamesAndLengths.hasOwnProperty(`${bookmarkName}.jsonl`)
IsDeadLink(detected, bookmarkName, allChatFileNamesAndLengths) ==
    detected /\ JsonlName(bookmarkName) \notin DOMAIN allChatFileNamesAndLengths

\* createNode; random is the state of Math.random when it is called
createNode(nodeId, messageId, text, group, allChatFileNamesAndLengths, random) ==
    LET found == { i \in DOMAIN group : IsBookmarkMessage(group[i].message) }
        detected == found # {}
        bookmark == group[CHOOSE i \in found : \A j \in found : i <= j]
        rawName == IF ~detected THEN Undefined
                   ELSE IF HasBookmarkLink(bookmark.message)
                        THEN bookmark.message.bookmark_link
                        ELSE LegacyAnchorTarget(bookmark.message.mes)
        rawFile == IF ~detected THEN group[1].file_name
                   ELSE IF HasBookmarkLink(bookmark.message)
                        THEN bookmark.file_name
                        ELSE rawName
        dead == IsDeadLink(detected, rawName, allChatFileNamesAndLengths)
        isBookmark == detected /\ ~dead
    IN [id |-> nodeId,
        msg |-> text,
        chat_depth |-> messageId,
        isBookmark |-> isBookmark,
        bookmarkName |-> IF dead THEN Undefined ELSE rawName,
        file_name |-> IF dead THEN Undefined ELSE rawFile,
        is_system |-> group[1].message.is_system,
        color |-> IF isBookmark THEN generateUniqueColor(text, random) ELSE NoColor,
        chat_sessions |->
            [f \in { group[i].file_name : i \in DOMAIN group } |->
                LET last == CHOOSE i \in DOMAIN group :
                                /\ group[i].file_name = f
                                /\ \A j \in DOMAIN group : group[j].file_name = f => j <= i
                IN [messageId |-> messageId,
                    indexInGroup |-> group[last].index,
                    length |-> allChatFileNamesAndLengths[f]]]]

----------------------------------------------------------------------------
(* buildGraph *)

RootId == "root"

MessageNodeId(keyCounter) == "message" \o ToString(keyCounter)
EdgeId(keyCounter) == "edge" \o ToString(keyCounter)
SwipeNodeId(keyCounter, totalSwipes) ==
    "swipe" \o ToString(keyCounter) \o "-" \o ToString(totalSwipes)
SwipeEdgeId(keyCounter) == "edgeSwipe" \o ToString(keyCounter)

RootData == [id |-> RootId, label |-> "root", send_date |-> ""]

\* the engine's working state right after the root node is pushed
BuildStart ==
    [cyElements |-> << [group |-> "nodes", ref |-> RootId] >>,
     nodeData |-> [n \in {RootId} |-> RootData],
     edgeData |-> << >>,
     keyCounter |-> 1,
     previousNodes |-> << >>,
     parentSwipeData |-> << >>,
     uniqueParents |-> {},
     mathRandom |-> mathRandom]

\* allChats[0].forEach(...): throws a TypeError when allChats is empty
InitPreviousNodesThrows(allChats) == Len(allChats) = 0

InitPreviousNodes(allChats) ==
    [f \in { allChats[1][i].file_name : i \in DOMAIN allChats[1] } |-> RootId]

\* allSwipes for a group: the concatenation of the members' swipes lists
AllSwipes(messageId, group) ==
    IF messageId = 0 THEN <<>>
    ELSE Flatten([i \in DOMAIN group |-> group[i].message.swipes])

UniqueSwipes(messageId, text, group) ==
    LET notSelected(swipeText) == swipeText # text
    IN IF messageId = 0 THEN <<>>
       ELSE FilterSeq(UniqueSeq(AllSwipes(messageId, group)), notSelected)

\* uniqueSwipes.forEach(...): one alternate node/edge pair per variant text
RECURSIVE StoreSwipes(_, _, _, _, _, _)
StoreSwipes(st, node, parentNodeId, uniqueSwipes, allSwipes, i) ==
    IF i > Len(uniqueSwipes) THEN st
    ELSE LET swipeText == uniqueSwipes[i]
             entry == st.parentSwipeData[parentNodeId]
             swipeNodeId == SwipeNodeId(st.keyCounter, entry.totalSwipes)
             swipeIndex == IndexOf(allSwipes, swipeText)
             swipeNode == [isSwipe |-> TRUE, swipeId |-> swipeIndex]
                          @@ [node EXCEPT !.id = swipeNodeId, !.msg = swipeText]
             swipeEdge == [id |-> SwipeEdgeId(st.keyCounter),
                           source |-> parentNodeId,
                           target |-> swipeNodeId,
                           isSwipe |-> TRUE,
                           swipeId |-> swipeIndex]
             stored == Append(entry.storedSwipes, [node |-> swipeNode, edge |-> swipeEdge])
         IN The({ StoreSwipes(next, node, parentNodeId, uniqueSwipes, allSwipes, i + 1) :
                  next \in { [st EXCEPT !.parentSwipeData =
                                 (parentNodeId :> [entry EXCEPT !.storedSwipes = stored]) @@ @,
                                        !.keyCounter = @ + 1] } })

\* the block guarded by messageId !== 0 && !uniqueParents.has(parentNodeId)
StoreSwipeData(st, node, text, parentNodeId, uniqueSwipes, allSwipes) ==
    LET fresh == [storedSwipes |-> <<>>,
                  totalSwipes |-> 0,
                  currentSwipeIndex |-> IndexOf(uniqueSwipes, text)]
        before == IF parentNodeId \in DOMAIN st.parentSwipeData
                  THEN st.parentSwipeData[parentNodeId] ELSE fresh
        counted == [before EXCEPT !.totalSwipes = @ + Len(uniqueSwipes)]
    IN The({ StoreSwipes(st1, node, parentNodeId, uniqueSwipes, allSwipes, 1) :
             st1 \in { [st EXCEPT !.uniqueParents = @ \cup {parentNodeId},
                                  !.parentSwipeData = (parentNodeId :> counted) @@ @] } })

\* mutant of EdgeSource: the log's tail is moved to the new node before the
\* edge is pushed
EdgeSourceAfterUpdate(st, nodeId, file_name) == nodeId

\* mutant of EdgeSource: every edge hangs off the root
EdgeSourceRoot(st, nodeId, file_name) == RootId

\* the source of the edge pushed for a member: the log's current tail
EdgeSource(st, nodeId, file_name) == st.previousNodes[file_name]

\* mutant of NewEdge: source and target are swapped
NewEdgeReversed(edgeId, parentNodeId, nodeId) ==
    [id |-> edgeId, source |-> nodeId, target |-> parentNodeId]

\* the data object of the edge pushed for a member
NewEdge(edgeId, parentNodeId, nodeId) ==
    [id |-> edgeId, source |-> parentNodeId, target |-> nodeId]

\* one iteration of `for (const messageObj of group)`
ProcessMember(st, messageId, nodeId, node, text, uniqueSwipes, allSwipes, messageObj) ==
    LET parentNodeId == EdgeSource(st, nodeId, messageObj.file_name)
    IN The({ [st1 EXCEPT
                !.cyElements = @ \o << [group |-> "nodes", ref |-> nodeId],
                                       [group |-> "edges", ref |-> EdgeId(st1.keyCounter)] >>,
                !.nodeData = (nodeId :> node) @@ @,
                !.edgeData = (EdgeId(st1.keyCounter) :>
                                 NewEdge(EdgeId(st1.keyCounter), parentNodeId, nodeId)) @@ @,
                !.previousNodes = (messageObj.file_name :> nodeId) @@ @,
                !.keyCounter = @ + 1] :
             st1 \in { IF messageId # 0 /\ parentNodeId \notin st.uniqueParents
                       THEN StoreSwipeData(st, node, text, parentNodeId, uniqueSwipes,
                                           allSwipes)
                       ELSE st } })

RECURSIVE ProcessMembers(_, _, _, _, _, _, _, _, _)
ProcessMembers(st, messageId, nodeId, node, text, uniqueSwipes, allSwipes, group, i) ==
    IF i > Len(group) THEN st
    ELSE The({ ProcessMembers(next, messageId, nodeId, node, text, uniqueSwipes, allSwipes,
                              group, i + 1) :
               next \in { ProcessMember(st, messageId, nodeId, node, text, uniqueSwipes,
                                        allSwipes, group[i]) } })

\* one iteration of `for (const [text, group] of Object.entries(groups))`
\* after its call of createNode, which returned node
ProcessNode(st, messageId, nodeId, node, text, group) ==
    LET allSwipes == AllSwipes(messageId, group)
        uniqueSwipes == UniqueSwipes(messageId, text, group)
        called == IF node.isBookmark THEN MathRandomCalls(text) ELSE 0
    IN ProcessMembers([st EXCEPT !.uniqueParents = {}, !.mathRandom = @ + called],
                      messageId, nodeId, node, text, uniqueSwipes, allSwipes, group, 1)

\* one iteration of `for (const [text, group] of Object.entries(groups))`
ProcessGroup(st, messageId, text, group, allChatFileNamesAndLengths) ==
    The({ ProcessNode(st, messageId, MessageNodeId(st.keyCounter), node, text, group) :
          node \in { createNode(MessageNodeId(st.keyCounter), messageId, text, group,
                                allChatFileNamesAndLengths, st.mathRandom) } })

RECURSIVE ProcessGroups(_, _, _, _, _)
ProcessGroups(st, messageId, groups, allChatFileNamesAndLengths, g) ==
    IF g > Len(groups) THEN st
    ELSE The({ ProcessGroups(next, messageId, groups, allChatFileNamesAndLengths, g + 1) :
               next \in { ProcessGroup(st, messageId, groups[g].text, groups[g].members,
                                       allChatFileNamesAndLengths) } })

\* the loop `for (messageId = 0; messageId < allChats.length; messageId++)`
RECURSIVE ProcessDepths(_, _, _, _)
ProcessDepths(st, allChats, allChatFileNamesAndLengths, messageId) ==
    IF messageId >= Len(allChats) THEN st
    ELSE The({ ProcessDepths(next, allChats, allChatFileNamesAndLengths, messageId + 1) :
               next \in { The({ ProcessGroups(st, messageId, groups,
                                              allChatFileNamesAndLengths, 1) :
                                groups \in { groupMessagesByContent(
                                                 allChats[messageId + 1]) } }) } })

\* cyElements.forEach(... Object.assign(element.data, parentSwipeData[id]))
AttachSwipeData(st) ==
    [st EXCEPT !.nodeData =
        [n \in DOMAIN st.nodeData |->
            IF n \in DOMAIN st.parentSwipeData
            THEN st.parentSwipeData[n] @@ st.nodeData[n]
            ELSE st.nodeData[n]]]

\* buildGraph: [threw |-> TRUE] when it throws, else the element list, the
\* data objects and the swipe data it stores in swipeCache
buildGraph(allChats, allChatFileNamesAndLengths) ==
    IF InitPreviousNodesThrows(allChats) THEN [threw |-> TRUE]
    ELSE The({ [threw |-> FALSE,
                cyElements |-> st.cyElements,
                nodeData |-> st.nodeData,
                edgeData |-> st.edgeData,
                parentSwipeData |-> st.parentSwipeData,
                previousNodes |-> st.previousNodes,
                mathRandom |-> st.mathRandom] :
               st \in { AttachSwipeData(processed) :
                        processed \in { ProcessDepths(st0, allChats,
                                                      allChatFileNamesAndLengths, 0) :
                                        st0 \in { [BuildStart EXCEPT !.previousNodes =
                                                      InitPreviousNodes(allChats)] } } } })

----------------------------------------------------------------------------
(* highlightCheckpointPaths, as a machine over                             *)
(* m = [cyElements, nodeData, edgeData, hl, hlLog].  Element wrappers are  *)
(* identified by their position in cyElements (0 is null).  A thickness    *)
(* is a JavaScript number from 4 up to 8: a double of that range is a      *)
(* whole number of units of 2^-50, held as <<hi, lo>> for                  *)
(* (hi * 2^26 + lo) units.                                                 *)

ZIndexBase == 1000
BaseThickness == 4
MaxThickness == 6

\* the double of the integer n, 4 <= n < 8
Whole(n) == <<n * (2^24), 0>>

\* the literal 0.1, the double 0x1.999999999999ap-4: 112589990684262 units
\* and 13/32 of a unit
ThicknessStep == [units |-> <<1677721, 40265318>>, fraction |-> 13]

\* x + y for a double x from 4 up to 8 and a small double y, sum below 8: the
\* exact sum rounded to the nearest unit, a tie to the even one
AddDouble(x, y) ==
    LET lo == x[2] + y.units[2]
        exact == <<x[1] + y.units[1] + (lo \div (2^26)), lo % (2^26)>>
        up == \/ y.fraction * 2 > 32
              \/ y.fraction * 2 = 32 /\ exact[2] % 2 = 1
    IN IF ~up THEN exact
       ELSE IF exact[2] + 1 = 2^26 THEN <<exact[1] + 1, 0>>
       ELSE <<exact[1], exact[2] + 1>>

LessDouble(x, y) == x[1] < y[1] \/ (x[1] = y[1] /\ x[2] < y[2])

\* mutant of MathMin: the cap is left out
MathMinFirst(x, y) == x

\* Math.min(x, y)
MathMin(x, y) == IF LessDouble(y, x) THEN y ELSE x

\* d.isBookmark, undefined (falsy) on objects without the property
IsBookmarkData(d) == "isBookmark" \in DOMAIN d /\ d.isBookmark

NodeElements(cy) == { i \in DOMAIN cy : cy[i].group = "nodes" }
EdgeElements(cy) == { i \in DOMAIN cy : cy[i].group = "edges" }

FirstOf(S) == IF S = {} THEN 0 ELSE CHOOSE i \in S : \A j \in S : i <= j

\* rawData.filter(entry => entry.group === 'nodes' && entry.data.isBookmark)
BookmarkNodes(cy, nd) ==
    LET isBm(i) == cy[i].group = "nodes" /\ IsBookmarkData(nd[cy[i].ref])
    IN SelectSeq([i \in DOMAIN cy |-> i], isBm)

\* rawData.find(edge with data.target === id): position of the first, or 0
FindIncomingEdge(cy, ed, id) ==
    FirstOf({ i \in EdgeElements(cy) : ed[cy[i].ref].target = id })

\* rawData.find(node with data.id === id): position of the first, or 0
FindNode(cy, nd, id) ==
    FirstOf({ i \in NodeElements(cy) : nd[cy[i].ref].id = id })

\* loop variables at the start of the callback for bookmarkNodes[b]
StartTrace(bookmarkNodes, b) ==
    [bookmarkNodes |-> bookmarkNodes,
     b |-> b,
     currentNode |-> IF b <= Len(bookmarkNodes) THEN bookmarkNodes[b] ELSE 0,
     hop |-> 0,
     currentZIndex |-> ZIndexBase,
     currentHighlightThickness |-> Whole(BaseThickness)]

HighlightStart(g) ==
    [cyElements |-> g.cyElements,
     nodeData |-> g.nodeData,
     edgeData |-> g.edgeData,
     hl |-> StartTrace(BookmarkNodes(g.cyElements, g.nodeData), 1),
     hlLog |-> <<>>]

\* mutant of StopsAtCheckpoint: the walk does not stop at other checkpoints
StopsAtCheckpointNever(m) == FALSE

\* `if (currentNode !== bookmarkNode && currentNode.data.isBookmark) break`
StopsAtCheckpoint(m) ==
    /\ m.hl.currentNode # m.hl.bookmarkNodes[m.hl.b]
    /\ IsBookmarkData(m.nodeData[m.cyElements[m.hl.currentNode].ref])

\* one iteration of `while (currentNode)`
HighlightIteration(m) ==
    LET h == m.hl
        bookmarkNode == m.nodeData[m.cyElements[h.bookmarkNodes[h.b]].ref]
        currentId == m.cyElements[h.currentNode].ref
        incomingEdge == FindIncomingEdge(m.cyElements, m.edgeData, currentId)
        edgeRef == m.cyElements[incomingEdge].ref
        decoration == [isHighlight |-> TRUE,
                       color |-> bookmarkNode.color,
                       bookmarkName |-> bookmarkNode.bookmarkName,
                       highlightThickness |-> h.currentHighlightThickness,
                       zIndex |-> h.currentZIndex]
    IN IF StopsAtCheckpoint(m) \/ incomingEdge = 0
       THEN [m EXCEPT !.hl.currentNode = 0]
       ELSE [m EXCEPT
               !.edgeData[edgeRef] = decoration @@ @,
               !.nodeData[currentId] = [borderColor |-> bookmarkNode.color] @@ @,
               !.hl.currentHighlightThickness =
                   MathMin(AddDouble(@, ThicknessStep), Whole(MaxThickness)),
               !.hl.currentZIndex = @ + 1,
               !.hl.hop = @ + 1,
               !.hl.currentNode = FindNode(m.cyElements, m.nodeData, m.edgeData[edgeRef].source),
               !.hlLog = Append(@, [edge |-> edgeRef,
                                    tracer |-> h.bookmarkNodes[h.b],
                                    checkpoint |-> bookmarkNode.id,
                                    hop |-> h.hop,
                                    thickness |-> h.currentHighlightThickness,
                                    zIndex |-> h.currentZIndex])]

\* the forEach moving on to the next checkpoint
HighlightAdvance(m) == [m EXCEPT !.hl = StartTrace(m.hl.bookmarkNodes, m.hl.b + 1)]

HighlightFinished(m) == m.hl.currentNode = 0 /\ m.hl.b > Len(m.hl.bookmarkNodes)

RECURSIVE RunHighlight(_)
RunHighlight(m) ==
    IF HighlightFinished(m) THEN m
    ELSE IF m.hl.currentNode # 0 THEN RunHighlight(HighlightIteration(m))
    ELSE RunHighlight(HighlightAdvance(m))

highlightCheckpointPaths(g) == RunHighlight(HighlightStart(g))

\* convertToCytoscapeElements
convertToCytoscapeElements(ch) ==
    The({ IF built.threw THEN built
          ELSE The({ [threw |-> FALSE,
                      cyElements |-> m.cyElements,
                      nodeData |-> m.nodeData,
                      edgeData |-> m.edgeData,
                      parentSwipeData |-> built.parentSwipeData,
                      mathRandom |-> built.mathRandom] :
                     m \in { highlightCheckpointPaths(built) } }) :
          built \in { buildGraph(preprocessChatSessions(ch), ChatLengths(ch)) } })

----------------------------------------------------------------------------
(* Inputs of the engine. *)

Msg(mes, is_system, bookmark_link, swipes) ==
    [mes |-> mes, is_system |-> is_system, bookmark_link |-> bookmark_link, swipes |-> swipes]

LogNames == <<"a.jsonl", "b.jsonl", "c.jsonl", "d.jsonl">>

\* messages for the shape of the graph: two spellings of one text, a message
\* with checkpoint metadata and no text, a text that names an inherited
\* property, a checkpoint into a.jsonl and a checkpoint into a log that
\* does not exist
GraphPool ==
    { Msg(<<"x", "CR", "LF">>, FALSE, Undefined, <<>>),
      Msg(<<"x", "LF">>, FALSE, Undefined, <<>>),
      Msg(MesUndefined, FALSE, "", <<>>),
      Msg(<<"constructor">>, FALSE, Undefined, <<>>),
      Msg(<<"y">>, FALSE, "a", <<>>),
      Msg(<<"y">>, FALSE, "zz", <<>>) }

\* messages for the traces of checkpoints: a plain message and checkpoints
\* into a.jsonl and b.jsonl
CheckpointPool ==
    { Msg(<<"x">>, FALSE, Undefined, <<>>),
      Msg(<<"y">>, FALSE, "a", <<>>),
      Msg(<<"z">>, FALSE, "b", <<>>) }

\* messages for the colours of checkpoints: a plain message, checkpoints
\* into a.jsonl with a text and a checkpoint into a.jsonl with the empty text
ColorPool ==
    { Msg(<<"x">>, FALSE, Undefined, <<>>),
      Msg(<<"y">>, FALSE, "a", <<>>),
      Msg(<<"x", "LF">>, FALSE, "a", <<>>),
      Msg(<<>>, FALSE, "a", <<>>) }

\* messages for the detection of checkpoints: a plain message, a system
\* message with the legacy marker and an anchor naming b, and a message of the
\* same text whose metadata links to a
LegacyPool ==
    { Msg(<<"x">>, FALSE, Undefined, <<>>),
      Msg(<<"MARK", "FN=", "b">>, TRUE, Undefined, <<>>),
      Msg(<<"MARK", "FN=", "b">>, FALSE, "a", <<>>) }

\* messages for the alternate texts: a plain message, a message that lists
\* its own text and another one among its alternates, a plain message with
\* that other text, and a checkpoint into a.jsonl whose alternates do not
\* hold its text
SwipePool ==
    { Msg(<<"x">>, FALSE, Undefined, <<>>),
      Msg(<<"y">>, FALSE, Undefined, << <<"y">>, <<"z">> >>),
      Msg(<<"z">>, FALSE, Undefined, <<>>),
      Msg(<<"y">>, FALSE, "a", << <<"w">> >>) }

RECURSIVE SumSeq(_)
SumSeq(s) == IF s = <<>> THEN 0 ELSE Head(s) + SumSeq(Tail(s))

\* the mapping of n logs with the given lengths holding the messages of flat
SplitInto(flat, lens) ==
    [i \in DOMAIN lens |->
        [file_name |-> LogNames[i],
         messages |-> SubSeq(flat, SumSeq(SubSeq(lens, 1, i - 1)) + 1,
                                   SumSeq(SubSeq(lens, 1, i)))]]

\* the lengths of n logs holding at most total messages in all
LogLengths(n, total) == { l \in [1..n -> 0..total] : SumSeq(l) <= total }

----------------------------------------------------------------------------
(* The server before any request, and the engine outside an invocation. *)

NoDisk == [d \in {} |-> <<>>]

ServerIdle ==
    /\ disk = NoDisk
    /\ responseCache = <<>>
    /\ swipeCache = <<>>
    /\ now = 0
    /\ reqs = <<>>
    /\ invalidations = <<>>
    /\ swipeReqs = <<>>
    /\ unfetched = {}

EngineIdle ==
    /\ chatHistory = <<>>
    /\ pc = "idle"
    /\ cyElements = <<>>
    /\ nodeData = <<>>
    /\ edgeData = <<>>
    /\ parentSwipeData = <<>>
    /\ hl = StartTrace(<<>>, 1)
    /\ hlLog = <<>>

----------------------------------------------------------------------------
(* The engine invocation: convertToCytoscapeElements(chatHistory). *)

EngineInit(pool, total) ==
    /\ \E n \in 0..NumLogs : \E lens \in LogLengths(n, total) :
          \E flat \in [1..SumSeq(lens) -> pool] : chatHistory = SplitInto(flat, lens)
    /\ pc = "start"
    /\ cyElements = <<>>
    /\ nodeData = <<>>
    /\ edgeData = <<>>
    /\ parentSwipeData = <<>>
    /\ hl = StartTrace(<<>>, 1)
    /\ hlLog = <<>>
    /\ ServerIdle
    /\ mathRandom = 0
    /\ invocations = 1

\* buildGraph returns
BuildGraph ==
    /\ pc = "start"
    /\ \E built \in {buildGraph(preprocessChatSessions(chatHistory), ChatLengths(chatHistory))} :
          /\ ~built.threw
          /\ cyElements' = built.cyElements
          /\ nodeData' = built.nodeData
          /\ edgeData' = built.edgeData
          /\ parentSwipeData' = built.parentSwipeData
          /\ mathRandom' = built.mathRandom
    /\ pc' = "built"
    /\ UNCHANGED <<chatHistory, hl, hlLog, serverVars, invocations>>

\* buildGraph throws
BuildGraphThrows ==
    /\ pc = "start"
    /\ buildGraph(preprocessChatSessions(chatHistory), ChatLengths(chatHistory)).threw
    /\ pc' = "threw"
    /\ UNCHANGED <<chatHistory, cyElements, nodeData, edgeData, parentSwipeData, hl, hlLog, serverVars, runtimeVars>>

Machine == [cyElements |-> cyElements, nodeData |-> nodeData, edgeData |-> edgeData,
            hl |-> hl, hlLog |-> hlLog]

SetMachine(m) ==
    /\ cyElements' = m.cyElements
    /\ nodeData' = m.nodeData
    /\ edgeData' = m.edgeData
    /\ hl' = m.hl
    /\ hlLog' = m.hlLog

\* highlightCheckpointPaths is entered: bookmarkNodes is computed
HighlightBegin ==
    /\ pc = "built"
    /\ SetMachine(HighlightStart(Machine))
    /\ pc' = "highlight"
    /\ UNCHANGED <<chatHistory, parentSwipeData, serverVars, runtimeVars>>

HighlightStep ==
    /\ pc = "highlight"
    /\ hl.currentNode # 0
    /\ SetMachine(HighlightIteration(Machine))
    /\ UNCHANGED <<chatHistory, parentSwipeData, pc, serverVars, runtimeVars>>

HighlightNext ==
    /\ pc = "highlight"
    /\ hl.currentNode = 0
    /\ hl.b <= Len(hl.bookmarkNodes)
    /\ SetMachine(HighlightAdvance(Machine))
    /\ UNCHANGED <<chatHistory, parentSwipeData, pc, serverVars, runtimeVars>>

HighlightReturn ==
    /\ pc = "highlight"
    /\ HighlightFinished(Machine)
    /\ pc' = "done"
    /\ UNCHANGED <<chatHistory, cyElements, nodeData, edgeData, parentSwipeData, hl, hlLog, serverVars, runtimeVars>>

EngineNext ==
    \/ BuildGraph
    \/ BuildGraphThrows
    \/ HighlightBegin
    \/ HighlightStep
    \/ HighlightNext
    \/ HighlightReturn

\* the caller invokes convertToCytoscapeElements again on the same input; it
\* still holds what the previous invocation returned
Reinvoke ==
    /\ pc = "done"
    /\ invocations < MaxInvocations
    /\ invocations' = invocations + 1
    /\ pc' = "start"
    /\ UNCHANGED <<chatHistory, cyElements, nodeData, edgeData, parentSwipeData, hl, hlLog,
                   serverVars, mathRandom>>

\* the engine on the inputs of GraphPool
SpecEngine == EngineInit(GraphPool, MaxMessages) /\ [][EngineNext]_vars

\* the engine on the inputs of CheckpointPool
SpecCheckpoint == EngineInit(CheckpointPool, MaxTraceMessages) /\ [][EngineNext]_vars

\* the engine on the inputs of LegacyPool
SpecLegacy == EngineInit(LegacyPool, MaxLegacyMessages) /\ [][EngineNext]_vars

\* the engine on the inputs of SwipePool
SpecSwipes == EngineInit(SwipePool, MaxSwipeMessages) /\ [][EngineNext]_vars

\* a log of n messages for long traces: its last message is a checkpoint into
\* a.jsonl, and so is the message at position c when there is one
PathLog(n, c) ==
    [i \in 1..n |-> IF i = n \/ i = c THEN Msg(<<"y">>, FALSE, "a", <<>>)
                    ELSE Msg(<<"x">>, FALSE, Undefined, <<>>)]

\* the engine is invoked on no log or on the log a.jsonl of PathLog
PathInit ==
    /\ \E n \in 0..MaxPathMessages : \E c \in 0..(IF n = 0 THEN 0 ELSE n - 1) :
          chatHistory = IF n = 0 THEN <<>>
                        ELSE << [file_name |-> LogNames[1], messages |-> PathLog(n, c)] >>
    /\ pc = "start"
    /\ cyElements = <<>>
    /\ nodeData = <<>>
    /\ edgeData = <<>>
    /\ parentSwipeData = <<>>
    /\ hl = StartTrace(<<>>, 1)
    /\ hlLog = <<>>
    /\ ServerIdle
    /\ mathRandom = 0
    /\ invocations = 1

\* the engine on one long log
SpecPath == PathInit /\ [][EngineNext]_vars

\* the engine invoked repeatedly on an input of ColorPool
SpecColor == EngineInit(ColorPool, MaxColorMessages) /\ [][EngineNext \/ Reinvoke]_vars

----------------------------------------------------------------------------
(* The request handlers of init(router) and the two caches. *)

CACHE_TTL == 30000

\* milliseconds per clock tick
TickMs == 15000

getCacheKey(characterId, isGroup) ==
    (IF isGroup THEN "group" ELSE "char") \o ":" \o characterId

\* mutant of isCacheValid: an entry is still valid at the age CACHE_TTL
isCacheValidInclusive(cache, key) ==
    key \in DOMAIN cache /\ now - cache[key].timestamp <= CACHE_TTL

\* entry && Date.now() - entry.timestamp < CACHE_TTL, for cache.get(key)
isCacheValid(cache, key) ==
    key \in DOMAIN cache /\ now - cache[key].timestamp < CACHE_TTL

\* cache.set(key, { data, timestamp: Date.now() }), Date.now() being timestamp
CacheSet(cache, key, data, timestamp) ==
    (key :> [data |-> data, timestamp |-> timestamp]) @@ cache

\* mutant of CacheDelete: the whole cache is cleared
CacheClear(cache, key) == <<>>

\* cache.delete(key)
CacheDelete(cache, key) == [k \in DOMAIN cache \ {key} |-> cache[k]]

\* String(avatar_url) with the image extension removed
CharacterName(avatar_url) ==
    CASE avatar_url = "alice.png" -> "alice"
      [] OTHER -> avatar_url

\* resolveChatDirectory: every group shares one directory
resolveChatDirectory(avatar_url, is_group) ==
    IF is_group THEN "group_chats" ELSE CharacterName(avatar_url)

\* a line of a .jsonl file: JSON.parse succeeds with value, or throws
Line(message) == [parses |-> TRUE, value |-> message]
BadLine == [parses |-> FALSE, value |-> Msg(MesUndefined, FALSE, Undefined, <<>>)]

\* the first line of an individual chat: chat metadata, no mes
HeaderLine == Line(Msg(MesUndefined, FALSE, Undefined, <<>>))

\* the message has a mes property
HasText(message) == message.mes # MesUndefined

\* !messages[0].mes
MesFalsy(message) == ~HasText(message) \/ message.mes = <<>>

\* lines 564-579: parse the lines, drop those that do not parse, drop the
\* metadata line of an individual chat
ParseChat(lines, is_group) ==
    LET parses(line) == line.parses
        parsed == SelectSeq(lines, parses)
        messages == [i \in DOMAIN parsed |-> parsed[i].value]
    IN IF ~is_group /\ Len(messages) > 0 /\ MesFalsy(messages[1])
       THEN Tail(messages) ELSE messages

\* result.metadata[file.name] (file_size and the stat times are left out)
ChatMetadata(messages) ==
    [chat_items |-> Len(messages),
     mes |-> IF Len(messages) > 0 /\ HasText(messages[Len(messages)])
             THEN messages[Len(messages)].mes ELSE <<>>]

\* mutant of StripSwipes: everything Object.assign added is deleted
StripSwipeData(nd) ==
    [n \in DOMAIN nd |->
        [field \in DOMAIN nd[n] \ {"storedSwipes", "totalSwipes", "currentSwipeIndex"} |->
            nd[n][field]]]

\* lines 603-608: delete element.data.storedSwipes
StripSwipes(nd) ==
    [n \in DOMAIN nd |->
        IF "storedSwipes" \in DOMAIN nd[n]
        THEN [field \in DOMAIN nd[n] \ {"storedSwipes"} |-> nd[n][field]]
        ELSE nd[n]]

\* the requests clients send to bulk-fetch
RequestPool ==
    { [avatar_url |-> "alice.png", is_group |-> FALSE],
      [avatar_url |-> "g1", is_group |-> TRUE],
      [avatar_url |-> "", is_group |-> FALSE],
      [avatar_url |-> Undefined, is_group |-> FALSE] }

\* mutant of MissingSubject: only an absent avatar_url is rejected
MissingSubjectAbsentOnly(avatar_url) == avatar_url = Undefined

\* !avatar_url
MissingSubject(avatar_url) == avatar_url \in {"", Undefined}

CacheKeys ==
    { getCacheKey(q.avatar_url, q.is_group) : q \in { q \in RequestPool : ~MissingSubject(q.avatar_url) } }

PlainLine(text) == Line(Msg(text, FALSE, Undefined, <<>>))

\* the chat directories the server may run on
DiskPool ==
    { \* two chats of alice, one of them with a variant and a checkpoint into
      \* a log that does not exist; no group directory
      ("alice" :> ("a.jsonl" :> <<HeaderLine, PlainLine(<<"x">>),
                                   Line(Msg(<<"y">>, FALSE, "zz", << <<"y">>, <<"w">> >>))>>
                  @@ "b.jsonl" :> <<HeaderLine, PlainLine(<<"x">>)>>)),
      \* one chat of alice; a group chat with a line that does not parse
      ("alice" :> ("a.jsonl" :> <<HeaderLine, PlainLine(<<"x">>)>>)
       @@ "group_chats" :> ("g.jsonl" :> <<BadLine, PlainLine(<<"x">>)>>)) }

ServerInit ==
    /\ disk \in DiskPool
    /\ responseCache = <<>>
    /\ swipeCache = <<>>
    /\ now = 0
    /\ reqs = <<>>
    /\ invalidations = <<>>
    /\ swipeReqs = <<>>
    /\ unfetched = {}
    /\ EngineIdle
    /\ mathRandom = 0
    /\ invocations = 0

NewRequest(q, cacheKey, requestPc, response) ==
    [avatar_url |-> q.avatar_url,
     is_group |-> q.is_group,
     cacheKey |-> cacheKey,
     pc |-> requestPc,
     tasks |-> <<>>,
     failed |-> {},
     chats |-> <<>>,
     metadata |-> <<>>,
     afterInvalidate |-> cacheKey \in unfetched,
     cacheAge |-> IF cacheKey \in DOMAIN responseCache
                  THEN now - responseCache[cacheKey].timestamp ELSE -1,
     response |-> response]

NoResponse == [status |-> 0, kind |-> "none"]

\* the number of bulk-fetch and swipes requests received so far
Received == Len(reqs) + Len(swipeReqs)

\* bulk-fetch without avatar_url: status 400
BulkFetchReject ==
    /\ Received < MaxRequests
    /\ \E q \in RequestPool :
          /\ MissingSubject(q.avatar_url)
          /\ reqs' = Append(reqs, NewRequest(q, "", "done",
                                [status |-> 400, kind |-> "missing avatar_url"]))
    /\ UNCHANGED <<engineVars, invocations, mathRandom, swipeReqs, disk, responseCache, swipeCache, now, invalidations, unfetched>>

\* bulk-fetch answered from responseCache
BulkFetchCached ==
    /\ Received < MaxRequests
    /\ \E q \in RequestPool :
          LET cacheKey == getCacheKey(q.avatar_url, q.is_group)
          IN /\ ~MissingSubject(q.avatar_url)
             /\ isCacheValid(responseCache, cacheKey)
             /\ reqs' = Append(reqs, NewRequest(q, cacheKey, "done",
                                  [status |-> 200, kind |-> "cached",
                                   body |-> responseCache[cacheKey].data]))
             /\ unfetched' = unfetched \ {cacheKey}
    /\ UNCHANGED <<engineVars, invocations, mathRandom, swipeReqs, disk, responseCache, swipeCache, now, invalidations>>

\* bulk-fetch finds no valid cache entry and awaits resolveChatDirectory
BulkFetchMiss ==
    /\ Received < MaxRequests
    /\ \E q \in RequestPool :
          LET cacheKey == getCacheKey(q.avatar_url, q.is_group)
          IN /\ ~MissingSubject(q.avatar_url)
             /\ ~isCacheValid(responseCache, cacheKey)
             /\ reqs' = Append(reqs, NewRequest(q, cacheKey, "resolve", NoResponse))
             /\ unfetched' = unfetched \ {cacheKey}
    /\ UNCHANGED <<engineVars, invocations, mathRandom, swipeReqs, disk, responseCache, swipeCache, now, invalidations>>

\* the chat directory does not exist: the empty result is returned
ResolveMissing ==
    /\ \E i \in DOMAIN reqs :
          /\ reqs[i].pc = "resolve"
          /\ resolveChatDirectory(reqs[i].avatar_url, reqs[i].is_group) \notin DOMAIN disk
          /\ reqs' = [reqs EXCEPT ![i].pc = "done",
                                  ![i].response = [status |-> 200, kind |-> "no directory"]]
    /\ UNCHANGED <<engineVars, invocations, mathRandom, swipeReqs, disk, responseCache, swipeCache, now, invalidations, unfetched>>

\* fs.readdir(chatDirectory) rejects: the handler's catch answers status 500
ResolveFails ==
    /\ \E i \in DOMAIN reqs :
          /\ reqs[i].pc = "resolve"
          /\ reqs' = [reqs EXCEPT ![i].pc = "done",
                                  ![i].response = [status |-> 500, kind |-> "error"]]
    /\ UNCHANGED <<engineVars, invocations, mathRandom, swipeReqs, disk, responseCache, swipeCache, now, invalidations, unfetched>>

\* the time that may pass between buildGraph's Date.now() (line 425) and the
\* handler's Date.now() (line 618): none, or one tick of the clock
BuildTimes == {0, TickMs}

\* lines 599-621, run when every load task has settled
Finish(i, r) ==
    \E conv \in {convertToCytoscapeElements(r.chats)} :
       IF conv.threw
       THEN /\ reqs' = [reqs EXCEPT ![i] = [r EXCEPT !.pc = "done",
                                               !.response = [status |-> 500, kind |-> "error"]]]
            /\ UNCHANGED <<responseCache, swipeCache, now, mathRandom>>
       ELSE \E elapsed \in BuildTimes :
            LET response == [graph |-> [cyElements |-> conv.cyElements,
                                        nodeData |-> StripSwipes(conv.nodeData),
                                        edgeData |-> conv.edgeData],
                             metadata |-> r.metadata]
            IN /\ now + elapsed <= MaxTicks * TickMs
               /\ swipeCache' = CacheSet(swipeCache, r.cacheKey, conv.parentSwipeData, now)
               /\ now' = now + elapsed
               /\ mathRandom' = conv.mathRandom
               /\ responseCache' = CacheSet(responseCache, r.cacheKey, response, now + elapsed)
               /\ reqs' = [reqs EXCEPT ![i] = [r EXCEPT !.pc = "done",
                                                  !.response = [status |-> 200, kind |-> "built",
                                                                body |-> response]]]

Pending(r) == { f \in DOMAIN r.tasks : r.tasks[f] \in {"readFile", "stat"} }

\* a step of request i leaves it as r: Promise.all resolves, and the handler
\* goes on, exactly when no task is pending any more
Settle(i, r) ==
    IF Pending(r) = {}
    THEN Finish(i, r)
    ELSE reqs' = [reqs EXCEPT ![i] = r] /\ UNCHANGED <<responseCache, swipeCache, now, mathRandom>>

\* the directory is read and one load task per .jsonl file is started
ResolveFound ==
    /\ \E i \in DOMAIN reqs :
          LET dir == resolveChatDirectory(reqs[i].avatar_url, reqs[i].is_group)
          IN /\ reqs[i].pc = "resolve"
             /\ dir \in DOMAIN disk
             /\ Settle(i, [reqs[i] EXCEPT !.pc = "loading",
                                          !.tasks = [f \in DOMAIN disk[dir] |-> "readFile"]])
    /\ UNCHANGED <<engineVars, invocations, swipeReqs, disk, invalidations, unfetched>>

\* fs.readFile resolves: the chat is parsed and stored in result.chats
ReadFileOk ==
    /\ \E i \in DOMAIN reqs : \E f \in DOMAIN reqs[i].tasks :
          LET dir == resolveChatDirectory(reqs[i].avatar_url, reqs[i].is_group)
              messages == ParseChat(disk[dir][f], reqs[i].is_group)
          IN /\ reqs[i].tasks[f] = "readFile"
             /\ reqs' = [reqs EXCEPT ![i].tasks[f] = "stat",
                                     ![i].chats = Append(@, [file_name |-> f,
                                                             messages |-> messages])]
    /\ UNCHANGED <<engineVars, invocations, mathRandom, swipeReqs, disk, responseCache, swipeCache, now, invalidations, unfetched>>

\* fs.readFile rejects: the task's catch logs the error
ReadFileFails ==
    /\ \E i \in DOMAIN reqs : \E f \in DOMAIN reqs[i].tasks :
          /\ reqs[i].tasks[f] = "readFile"
          /\ Settle(i, [reqs[i] EXCEPT !.tasks[f] = "failed", !.failed = @ \cup {f}])
    /\ UNCHANGED <<engineVars, invocations, swipeReqs, disk, invalidations, unfetched>>

\* fs.stat resolves: the chat's metadata is stored
StatOk ==
    /\ \E i \in DOMAIN reqs : \E f \in DOMAIN reqs[i].tasks :
          LET messages == reqs[i].chats[MessagesOf(reqs[i].chats, f)].messages
          IN /\ reqs[i].tasks[f] = "stat"
             /\ Settle(i, [reqs[i] EXCEPT !.tasks[f] = "loaded",
                                          !.metadata = (f :> ChatMetadata(messages)) @@ @])
    /\ UNCHANGED <<engineVars, invocations, swipeReqs, disk, invalidations, unfetched>>

\* fs.stat rejects: the task's catch logs the error
StatFails ==
    /\ \E i \in DOMAIN reqs : \E f \in DOMAIN reqs[i].tasks :
          /\ reqs[i].tasks[f] = "stat"
          /\ Settle(i, [reqs[i] EXCEPT !.tasks[f] = "failed", !.failed = @ \cup {f}])
    /\ UNCHANGED <<engineVars, invocations, swipeReqs, disk, invalidations, unfetched>>

\* invalidate-cache with avatar_url
InvalidateSubject ==
    /\ Len(invalidations) < MaxInvalidations
    /\ \E q \in RequestPool :
          /\ ~MissingSubject(q.avatar_url)
          /\ responseCache' = CacheDelete(responseCache, getCacheKey(q.avatar_url, q.is_group))
          /\ swipeCache' = CacheDelete(swipeCache, getCacheKey(q.avatar_url, q.is_group))
          /\ invalidations' = Append(invalidations, q)
    /\ UNCHANGED <<engineVars, invocations, mathRandom, swipeReqs, disk, now, reqs, unfetched>>

\* invalidate-cache without avatar_url
InvalidateAll ==
    /\ Len(invalidations) < MaxInvalidations
    /\ \E q \in RequestPool :
          /\ MissingSubject(q.avatar_url)
          /\ invalidations' = Append(invalidations, q)
    /\ responseCache' = <<>>
    /\ swipeCache' = <<>>
    /\ unfetched' = CacheKeys
    /\ UNCHANGED <<engineVars, invocations, mathRandom, swipeReqs, disk, now, reqs>>

\* the node ids and cache keys clients send to swipes
SwipeNodePool == {"message1", "message3"}

SwipeKeyPool == {"char:alice.png", ""}

\* the answer of GET /swipes/:nodeId?cacheKey=
getVariants(nodeId, cacheKey) ==
    IF cacheKey = ""
    THEN [status |-> 400, kind |-> "missing cacheKey"]
    ELSE IF ~isCacheValid(swipeCache, cacheKey)
    THEN [status |-> 404, kind |-> "not found or expired"]
    ELSE IF nodeId \notin DOMAIN swipeCache[cacheKey].data
    THEN [status |-> 200, kind |-> "no swipes", swipes |-> <<>>]
    ELSE LET swipeData == swipeCache[cacheKey].data[nodeId]
         IN [status |-> 200, kind |-> "swipes",
             swipes |-> swipeData.storedSwipes,
             totalSwipes |-> swipeData.totalSwipes,
             currentSwipeIndex |-> swipeData.currentSwipeIndex]

\* swipes: the handler runs without awaiting
GetSwipes ==
    /\ Received < MaxRequests
    /\ \E nodeId \in SwipeNodePool : \E cacheKey \in SwipeKeyPool :
          swipeReqs' = Append(swipeReqs, [nodeId |-> nodeId, cacheKey |-> cacheKey,
                                          response |-> getVariants(nodeId, cacheKey)])
    /\ UNCHANGED <<engineVars, invocations, mathRandom, disk, responseCache, swipeCache, now, reqs, invalidations, unfetched>>

\* time passes
Tick ==
    /\ now < MaxTicks * TickMs
    /\ now' = now + TickMs
    /\ UNCHANGED <<engineVars, invocations, mathRandom, swipeReqs, disk, responseCache, swipeCache, reqs, invalidations, unfetched>>

Next ==
    \/ BulkFetchReject
    \/ BulkFetchCached
    \/ BulkFetchMiss
    \/ ResolveMissing
    \/ ResolveFails
    \/ ResolveFound
    \/ ReadFileOk
    \/ ReadFileFails
    \/ StatOk
    \/ StatFails
    \/ InvalidateSubject
    \/ InvalidateAll
    \/ GetSwipes
    \/ Tick

Spec == ServerInit /\ [][Next]_vars

----------------------------------------------------------------------------
(* Properties of the graph buildGraph returns. *)

\* buildGraph has returned its element list
Returned == pc \in {"built", "highlight", "done"}

MessageNodes == DOMAIN nodeData \ {RootId}

EdgeOf(i) == edgeData[cyElements[i].ref]

\* depths at which log entry e holds a message
DepthsOf(e) == 0..(Len(e.messages) - 1)

\* the nodes of depth d whose membership map names log f
NodesThrough(f, d) ==
    { n \in MessageNodes : nodeData[n].chat_depth = d /\ f \in DOMAIN nodeData[n].chat_sessions }

\* C1: when graph construction returns, the element list holds exactly one
\* root node, no edge has the root as its target, and every other node is
\* the target of at least one edge.
C1_RootedGraph ==
    Returned =>
        /\ Cardinality({ i \in NodeElements(cyElements) : cyElements[i].ref = RootId }) = 1
        /\ \A i \in EdgeElements(cyElements) : EdgeOf(i).target # RootId
        /\ \A i \in NodeElements(cyElements) :
              cyElements[i].ref # RootId =>
                  \E j \in EdgeElements(cyElements) : EdgeOf(j).target = cyElements[i].ref

\* a graph with two message nodes, one hanging off the other
C1_Witness ==
    /\ pc = "done"
    /\ Cardinality(MessageNodes) >= 2
    /\ \E i \in EdgeElements(cyElements) : EdgeOf(i).source # RootId

\* C2: along every edge whose source is a message node the depth strictly
\* increases, also where a log skips a depth because its message there was
\* excluded; the root is never a target.  (Depth is a strictly increasing
\* rank along edges, so no path returns to its start.)
C2_DepthIncreases ==
    Returned =>
        \A i \in EdgeElements(cyElements) :
            /\ EdgeOf(i).target # RootId
            /\ EdgeOf(i).source # RootId =>
                  nodeData[EdgeOf(i).source].chat_depth < nodeData[EdgeOf(i).target].chat_depth

\* an edge from a message node that skips the depth of an excluded message
C2_Witness ==
    /\ pc = "done"
    /\ \E i \in EdgeElements(cyElements) :
          /\ EdgeOf(i).source # RootId
          /\ nodeData[EdgeOf(i).target].chat_depth = nodeData[EdgeOf(i).source].chat_depth + 2
          /\ \E k \in DOMAIN chatHistory :
                /\ Len(chatHistory[k].messages) >= 3
                /\ ~HasText(chatHistory[k].messages[2])

\* C3: at every depth, two messages of different logs with the same
\* normalized text are represented by exactly one node, and two messages
\* with different normalized texts never by the same node.
C3_OneNodePerText ==
    Returned =>
        \A k1, k2 \in DOMAIN chatHistory :
            \A d \in DepthsOf(chatHistory[k1]) \cap DepthsOf(chatHistory[k2]) :
                LET m1 == chatHistory[k1].messages[d + 1]
                    m2 == chatHistory[k2].messages[d + 1]
                    n1 == NodesThrough(chatHistory[k1].file_name, d)
                    n2 == NodesThrough(chatHistory[k2].file_name, d)
                IN (k1 # k2 /\ HasText(m1) /\ HasText(m2)) =>
                      IF NormalizeNewlines(m1.mes) = NormalizeNewlines(m2.mes)
                      THEN Cardinality(n1) = 1 /\ n1 = n2
                      ELSE n1 \cap n2 = {}

\* C4: graph construction never aborts, whatever the input mapping.
C4_NeverAborts == pc # "threw"

\* C5: no node is marked as a checkpoint unless its target, with the .jsonl
\* suffix, is a log of the input mapping; a node that is not a checkpoint
\* (its detected target was unknown, or none was detected) has no target
\* name and no colour.
C5_NoDeadCheckpoint ==
    Returned =>
        \A n \in MessageNodes :
            IF nodeData[n].isBookmark
            THEN JsonlName(nodeData[n].bookmarkName) \in FileNames(chatHistory)
            ELSE nodeData[n].bookmarkName = Undefined /\ nodeData[n].color = NoColor

\* a node whose only member links to a log that does not exist, beside a
\* node that is a checkpoint
C5_Witness ==
    /\ pc = "done"
    /\ \E n \in MessageNodes :
          /\ ~nodeData[n].isBookmark
          /\ \A f \in DOMAIN nodeData[n].chat_sessions :
                chatHistory[MessagesOf(chatHistory, f)].messages[nodeData[n].chat_depth + 1]
                    .bookmark_link = "zz"
    /\ \E n \in MessageNodes : nodeData[n].isBookmark

\* C8: when the input holds a message without text, construction completes,
\* that message is in no node's membership map, and every message that has
\* a text is represented by a node of its depth.
C8_MalformedExcluded ==
    (\E k \in DOMAIN chatHistory : \E d \in DepthsOf(chatHistory[k]) :
        ~HasText(chatHistory[k].messages[d + 1])) =>
        /\ pc # "threw"
        /\ Returned =>
              \A k \in DOMAIN chatHistory : \A d \in DepthsOf(chatHistory[k]) :
                  LET m == chatHistory[k].messages[d + 1]
                      through == NodesThrough(chatHistory[k].file_name, d)
                  IN IF HasText(m)
                     THEN \E n \in through : nodeData[n].msg = NormalizeNewlines(m.mes)
                     ELSE through = {}

----------------------------------------------------------------------------
(* Properties of highlightCheckpointPaths. *)

\* the nodes from id toward the root along first incoming edges: id first
RECURSIVE Walk(_)
Walk(id) ==
    LET incoming == FindIncomingEdge(cyElements, edgeData, id)
    IN IF incoming = 0 THEN <<id>>
       ELSE <<id>> \o Walk(EdgeOf(incoming).source)

\* the nodes above id on its walk
Route(id) == Range(Tail(Walk(id)))

Checkpoints == { n \in MessageNodes : nodeData[n].isBookmark }

\* the number of edges the trace of checkpoint c is to highlight: up to the
\* first node above c that is a checkpoint, or up to the root
StopHop(c) ==
    LET w == Walk(c)
        stops == { k \in 2..Len(w) : w[k] = RootId \/ w[k] \in Checkpoints }
    IN (CHOOSE k \in stops : \A j \in stops : k <= j) - 1

C7_TraceShape ==
    /\ \A i \in DOMAIN hlLog :
          LET c == hlLog[i].checkpoint
              w == Walk(c)
              k == hlLog[i].hop
          IN /\ k + 1 <= Len(w)
             /\ hlLog[i].edge = cyElements[FindIncomingEdge(cyElements, edgeData, w[k + 1])].ref
             /\ \A j \in 2..(k + 1) : w[j] \notin Checkpoints
    /\ pc = "done" =>
          \A b \in DOMAIN hl.bookmarkNodes :
              { hlLog[i].hop : i \in { i \in DOMAIN hlLog : hlLog[i].tracer = hl.bookmarkNodes[b] } }
                  = 0..(StopHop(cyElements[hl.bookmarkNodes[b]].ref) - 1)

\* the loop of a trace advances along the walk of its checkpoint: after k
\* iterations the current node is the k-th node above the checkpoint, so a
\* trace makes no more iterations than its walk has nodes
C7_TraceAdvances ==
    (pc = "highlight" /\ hl.currentNode # 0) =>
        LET w == Walk(cyElements[hl.bookmarkNodes[hl.b]].ref)
        IN /\ hl.hop + 1 <= Len(w)
           /\ cyElements[hl.currentNode].ref = w[hl.hop + 1]

\* C7: the trace of a checkpoint follows first incoming edges toward the
\* root, stops at the root or at the first checkpoint above it, highlights
\* neither that checkpoint's incoming edge nor anything beyond it, and the
\* run terminates: every trace is bounded by the walk of its checkpoint.
C7_TraceStops ==
    /\ C7_TraceShape
    /\ C7_TraceAdvances

\* a finished run in which a trace stopped at a checkpoint below the root
C7_Witness ==
    /\ pc = "done"
    /\ \E i \in DOMAIN hlLog :
          LET c == hlLog[i].checkpoint
          IN /\ Walk(c)[StopHop(c) + 1] \in Checkpoints
             /\ hlLog[i].hop = StopHop(c) - 1

----------------------------------------------------------------------------
(* Properties of the request handlers. *)

Built(r) == r.pc = "done" /\ r.response.kind = "built"

\* the logs named by the membership maps of the nodes of a response
LogsInGraph(r) ==
    LET nd == r.response.body.graph.nodeData
    IN UNION { DOMAIN nd[n].chat_sessions : n \in DOMAIN nd \ {RootId} }

\* C9: in every answered bulk-fetch that built a graph, a log whose load
\* failed is in neither the input mapping, the graph nor the metadata, and
\* the logs represented in the graph are exactly the logs with a metadata
\* entry.
C9_FailedLogOmitted ==
    \A i \in DOMAIN reqs :
        Built(reqs[i]) =>
            /\ \A f \in reqs[i].failed :
                  /\ f \notin FileNames(reqs[i].chats)
                  /\ f \notin LogsInGraph(reqs[i])
                  /\ f \notin DOMAIN reqs[i].response.body.metadata
            /\ LogsInGraph(reqs[i]) = DOMAIN reqs[i].response.body.metadata

\* C10: a bulk-fetch that is the first for its subject to start after an
\* invalidate-cache without subject is never answered from the response
\* cache, whatever requests were in flight at the invalidation.
C10_RebuildAfterInvalidateAll ==
    \A i \in DOMAIN reqs :
        reqs[i].afterInvalidate => reqs[i].response.kind # "cached"

\* the node data objects of the payload cached for key
CachedNodes(key) == responseCache[key].data.graph.nodeData

\* C11: whenever the response cache holds a non-expired payload for a key,
\* the variant cache holds a non-expired entry for that key from the same
\* build: getVariants for a node of the cached graph is never answered
\* 'not found or expired', and for a parent of variants it returns as many
\* variants as the node's count says.
C11_VariantCacheConsistent ==
    \A key \in DOMAIN responseCache :
        isCacheValid(responseCache, key) =>
            /\ key \in DOMAIN swipeCache
            /\ now - swipeCache[key].timestamp < CACHE_TTL
            /\ \A n \in DOMAIN CachedNodes(key) :
                  /\ getVariants(n, key).status # 404
                  /\ "totalSwipes" \in DOMAIN CachedNodes(key)[n] =>
                        /\ getVariants(n, key).kind = "swipes"
                        /\ getVariants(n, key).totalSwipes = CachedNodes(key)[n].totalSwipes
                        /\ Len(getVariants(n, key).swipes) = CachedNodes(key)[n].totalSwipes

\* what C12 says of a step in which a bulk-fetch request with a subject arrives
C12_Arrival ==
    (Len(reqs') = Len(reqs) + 1 /\ reqs'[Len(reqs')].avatar_url \notin {"", Undefined}) =>
        LET r == reqs'[Len(reqs')]
            key == r.cacheKey
        IN IF key \in DOMAIN responseCache /\ now - responseCache[key].timestamp < 30000
           THEN /\ r.pc = "done"
                /\ r.response = [status |-> 200, kind |-> "cached",
                                 body |-> responseCache[key].data]
                /\ r.tasks = <<>>
                /\ r.chats = <<>>
           ELSE /\ r.pc = "resolve"
                /\ r.response = NoResponse

\* C12: a bulk-fetch request that arrives less than 30 seconds after the
\* entry of its cache key was cached is answered with exactly the cached
\* payload and reads no log; one that arrives 30 seconds or more after it,
\* or finds no entry, is not answered from the cache and goes on to read the
\* chat directory.
C12_CacheTTL == [][C12_Arrival]_vars

\* a request was answered from an entry cached some time before, and the
\* entry has not been replaced since
C12_Witness ==
    \E i \in DOMAIN reqs :
        /\ reqs[i].cacheAge > 0
        /\ reqs[i].cacheAge < 30000
        /\ reqs[i].response.kind = "cached"
        /\ reqs[i].cacheKey \in DOMAIN responseCache
        /\ reqs[i].response.body = responseCache[reqs[i].cacheKey].data

\* request i is answered in this step
Answered(i) == i \notin DOMAIN reqs \/ reqs[i].response.kind = "none"

\* what C13 says of a step that answers a bulk-fetch request with a payload
C13_Answer ==
    \A i \in DOMAIN reqs' :
        (reqs'[i].response.kind \in {"built", "cached"} /\ Answered(i)) =>
            LET r == reqs'[i]
                nd == r.response.body.graph.nodeData
                key == r.cacheKey
            IN /\ \A n \in DOMAIN nd :
                     /\ "storedSwipes" \notin DOMAIN nd[n]
                     /\ "totalSwipes" \in DOMAIN nd[n] <=> "currentSwipeIndex" \in DOMAIN nd[n]
               /\ r.response.kind = "cached" => swipeCache' = swipeCache
               /\ r.response.kind = "built" =>
                     /\ key \in DOMAIN swipeCache'
                     /\ now' - swipeCache'[key].timestamp < 30000
                     /\ \A n \in DOMAIN swipeCache'[key].data :
                           LET entry == swipeCache'[key].data[n]
                           IN /\ n \in DOMAIN nd
                              /\ "totalSwipes" \in DOMAIN nd[n]
                              /\ nd[n].totalSwipes = entry.totalSwipes
                              /\ nd[n].currentSwipeIndex = entry.currentSwipeIndex
                              /\ Len(entry.storedSwipes) = entry.totalSwipes
                              /\ \A k \in DOMAIN entry.storedSwipes :
                                    /\ entry.storedSwipes[k].edge.source = n
                                    /\ entry.storedSwipes[k].edge.target =
                                          entry.storedSwipes[k].node.id

\* C13: in a payload bulk-fetch returns, fresh or cached, no node carries
\* storedSwipes; when a fresh payload is built every parent of a variant
\* set carries in the payload the count and the index the variant store
\* holds for it, and the store's entry is not expired and holds as many
\* variants of that parent as the count says, so getVariants returns them
\* all; returning a cached payload leaves the variant store unchanged.
C13_StrippedPayload == [][C13_Answer]_vars

\* a built payload with a node that is the parent of a variant, the variant
\* being served by getVariants
C13_Witness ==
    \E i \in DOMAIN reqs :
        /\ reqs[i].response.kind = "built"
        /\ \E n \in DOMAIN reqs[i].response.body.graph.nodeData :
              /\ "totalSwipes" \in DOMAIN reqs[i].response.body.graph.nodeData[n]
              /\ reqs[i].response.body.graph.nodeData[n].totalSwipes > 0
              /\ getVariants(n, reqs[i].cacheKey).kind = "swipes"
              /\ Len(getVariants(n, reqs[i].cacheKey).swipes) > 0

\* what C14 says of a step in which a bulk-fetch request arrives without a
\* subject
C14_Arrival ==
    (Len(reqs') = Len(reqs) + 1 /\ reqs'[Len(reqs')].avatar_url \in {"", Undefined}) =>
        /\ reqs'[Len(reqs')].pc = "done"
        /\ reqs'[Len(reqs')].response.status = 400
        /\ reqs'[Len(reqs')].tasks = <<>>
        /\ reqs'[Len(reqs')].chats = <<>>
        /\ responseCache' = responseCache
        /\ swipeCache' = swipeCache

\* C14: a bulk-fetch request whose avatar_url is missing or empty is
\* answered with status 400 in the step in which it arrives, no load task
\* is started for it, no log is read, and both caches stay as they were.
C14_RejectedAtBoundary == [][C14_Arrival]_vars

\* a request without subject was rejected while the caches held entries
C14_Witness ==
    /\ \E i \in DOMAIN reqs : reqs[i].avatar_url = "" /\ reqs[i].response.status = 400
    /\ DOMAIN responseCache # {}
    /\ DOMAIN swipeCache # {}

\* the entries of cache other than key's are the same in this step's two
\* states, and key has no entry after it
OnlyRemoved(cacheBefore, cacheAfter, key) ==
    /\ DOMAIN cacheAfter = DOMAIN cacheBefore \ {key}
    /\ \A k \in DOMAIN cacheAfter : cacheAfter[k] = cacheBefore[k]

\* what C15 says of a step that handles an invalidate-cache request
C15_Invalidate ==
    Len(invalidations') = Len(invalidations) + 1 =>
        LET q == invalidations'[Len(invalidations')]
            key == (IF q.is_group THEN "group:" ELSE "char:") \o q.avatar_url
        IN IF q.avatar_url \in {"", Undefined}
           THEN DOMAIN responseCache' = {} /\ DOMAIN swipeCache' = {}
           ELSE /\ OnlyRemoved(responseCache, responseCache', key)
                /\ OnlyRemoved(swipeCache, swipeCache', key)

\* C15: an invalidate-cache request that names a subject removes from both
\* caches the entry of the key made of that subject and its group flag and
\* leaves every other entry as it was; a request without subject leaves
\* both caches empty.
C15_InvalidateExactly == [][C15_Invalidate]_vars

\* an invalidation with a subject removed that subject's entries from both
\* caches while another key's entries stayed
C15_Witness ==
    \E k \in DOMAIN invalidations :
        /\ invalidations[k].avatar_url = "g1"
        /\ \E i \in DOMAIN reqs : reqs[i].cacheKey = "group:g1" /\ reqs[i].response.kind = "built"
        /\ DOMAIN responseCache = {"char:alice.png"}
        /\ DOMAIN swipeCache = {"char:alice.png"}

----------------------------------------------------------------------------
(* Colours of checkpoint nodes over repeated builds. *)

\* the checkpoint nodes among the data objects nd
CheckpointNodes(nd) == { n \in DOMAIN nd \ {RootId} : nd[n].isBookmark }

\* the second invocation's buildGraph returns
SecondBuild == pc = "start" /\ pc' = "built" /\ invocations = MaxInvocations

C16_AllRebuilt ==
    SecondBuild =>
        \A n \in CheckpointNodes(nodeData') :
            n \in CheckpointNodes(nodeData) /\ nodeData'[n].color = nodeData[n].color

\* C16 as stated: two builds of the same input give every checkpoint node the
\* same colour.
C16_SameColourEveryCheckpoint == [][C16_AllRebuilt]_vars

IsRGBTriple(color) ==
    /\ Len(color) = 4
    /\ color[1] = "rgb"
    /\ \A i \in 2..4 : color[i] \in 0..255

C16_SeededRebuilt ==
    SecondBuild =>
        \A n \in CheckpointNodes(nodeData') :
            /\ IsRGBTriple(nodeData'[n].color)
            /\ nodeData'[n].msg # <<>> =>
                  /\ n \in CheckpointNodes(nodeData)
                  /\ nodeData'[n].color = nodeData[n].color

\* C16 amended: the colour of every checkpoint node is an RGB triple with
\* components in 0..255, and two builds of the same input give every checkpoint
\* node whose text is not empty the same colour, whatever Math.random returned
\* in between.
C16_SeededColourEveryBuild == [][C16_SeededRebuilt]_vars

\* the second build has returned a checkpoint node with a text, and Math.random
\* was called in both builds
C16_Witness ==
    /\ pc = "built"
    /\ invocations = MaxInvocations
    /\ mathRandom = 6
    /\ \E n \in CheckpointNodes(nodeData) : nodeData[n].msg # <<>>

----------------------------------------------------------------------------
(* Edges into a message node. *)

\* the node log f passed through at its last represented depth below d
PreviousNode(f, d) ==
    LET below == { n \in MessageNodes :
                     /\ f \in DOMAIN nodeData[n].chat_sessions
                     /\ nodeData[n].chat_depth < d }
    IN IF below = {} THEN RootId
       ELSE CHOOSE n \in below :
                \A m \in below : nodeData[m].chat_depth <= nodeData[n].chat_depth

EdgesInto(n) == { i \in EdgeElements(cyElements) : EdgeOf(i).target = n }

\* as many edges into every message node as logs in its membership map, as
\* many of them from a source as logs whose previous node is that source
EdgePerLog ==
    \A n \in MessageNodes :
        LET logs == DOMAIN nodeData[n].chat_sessions
        IN /\ Cardinality(EdgesInto(n)) = Cardinality(logs)
           /\ \A s \in DOMAIN nodeData :
                 Cardinality({ i \in EdgesInto(n) : EdgeOf(i).source = s })
                 = Cardinality({ f \in logs : PreviousNode(f, nodeData[n].chat_depth) = s })

\* the tails buildGraph ends with are the last nodes of the logs
TailsAreLast(previousNodes) ==
    \A f \in DOMAIN previousNodes :
        previousNodes[f] = PreviousNode(f, MaxTraceMessages)

C17_Build ==
    pc = "start" /\ pc' = "built" =>
        /\ EdgePerLog'
        /\ \E built \in {buildGraph(preprocessChatSessions(chatHistory),
                                     ChatLengths(chatHistory))} :
              TailsAreLast(built.previousNodes)'

\* C17: in the graph buildGraph returns, every message node N has exactly one
\* incoming edge for every log in its membership map and no other; the edge of
\* log L comes from the node L passed through at its previous represented
\* depth, the root when there is none; and the tail buildGraph keeps for a log
\* is the last node the log passed through.
C17_OneEdgePerLog == [][C17_Build]_vars

\* logs A = [x, y], B = [x, z]: the children y and z have one incoming edge
\* each, from the shared node of x
C17_Witness ==
    /\ pc = "built"
    /\ Len(chatHistory) = 2
    /\ \E h, c1, c2 \in MessageNodes :
          /\ c1 # c2
          /\ DOMAIN nodeData[h].chat_sessions = {"a.jsonl", "b.jsonl"}
          /\ DOMAIN nodeData[c1].chat_sessions = {"a.jsonl"}
          /\ DOMAIN nodeData[c2].chat_sessions = {"b.jsonl"}
          /\ \A c \in {c1, c2} :
                /\ Cardinality(EdgesInto(c)) = 1
                /\ \A i \in EdgesInto(c) : EdgeOf(i).source = h

----------------------------------------------------------------------------
(* Detection of checkpoints. *)

\* the messages of the partition node n stands for
MembersOf(n) ==
    { chatHistory[k].messages[nodeData[n].chat_depth + 1] :
        k \in { k \in DOMAIN chatHistory :
                  chatHistory[k].file_name \in DOMAIN nodeData[n].chat_sessions } }

LegacyOnly(message) ==
    message.is_system /\ IncludesLegacyMarker(message.mes) /\ ~HasBookmarkLink(message)

\* C18: when a partition holds a member with an explicit checkpoint-target
\* field and a member that matches only the legacy marker, the checkpoint
\* target of its node is the value of an explicit field, whatever the order of
\* the members.
C18_ExplicitBeforeLegacy ==
    Returned =>
        \A n \in MessageNodes :
            (/\ \E m \in MembersOf(n) : HasBookmarkLink(m)
             /\ \E m \in MembersOf(n) : LegacyOnly(m))
            => \E m \in MembersOf(n) :
                  HasBookmarkLink(m) /\ nodeData[n].bookmarkName = m.bookmark_link

----------------------------------------------------------------------------
(* Stored alternate texts. *)

\* the message nodes at the end of an edge from p
ChildrenOf(p) ==
    { n \in MessageNodes : \E i \in EdgeElements(cyElements) :
                               EdgeOf(i).source = p /\ EdgeOf(i).target = n }

\* the texts of the alternates stored for parent p
StoredTexts(p) ==
    { parentSwipeData[p].storedSwipes[i].node.msg :
        i \in DOMAIN parentSwipeData[p].storedSwipes }

\* the node of the partition that contributed the stored alternate sw
ContributorOf(sw) ==
    CHOOSE n \in MessageNodes :
        /\ nodeData[n].chat_depth = sw.node.chat_depth
        /\ nodeData[n].chat_sessions = sw.node.chat_sessions

\* C19: no alternate stored for a parent P has the text of a real child node
\* of P, and no stored alternate has the text of the partition that
\* contributed it.
C19_VariantsNotChosen ==
    Returned =>
        \A p \in DOMAIN parentSwipeData :
            /\ \A c \in ChildrenOf(p) : nodeData[c].msg \notin StoredTexts(p)
            /\ \A i \in DOMAIN parentSwipeData[p].storedSwipes :
                  LET sw == parentSwipeData[p].storedSwipes[i]
                  IN sw.node.msg # nodeData[ContributorOf(sw)].msg

\* the position of the first element pushed for node n
FirstElement(n) ==
    CHOOSE i \in NodeElements(cyElements) :
        /\ cyElements[i].ref = n
        /\ \A j \in NodeElements(cyElements) : cyElements[j].ref = n => i <= j

\* the child of p whose partition was the first to store alternates for p
FirstChild(p) ==
    LET kids == { c \in ChildrenOf(p) : nodeData[c].chat_depth # 0 }
    IN CHOOSE c \in kids : \A k \in kids : FirstElement(c) <= FirstElement(k)

\* the alternate texts listed by the members of the partition of node n
VariantPool(n) == UNION { Range(m.swipes) : m \in MembersOf(n) }

\* C20: the selected-variant index recorded for a parent is -1 only when the
\* selected text of the child that created the record is not among the
\* alternate texts of the child's partition, and it is -1 then.
C20_SelectedIndex ==
    Returned =>
        \A p \in DOMAIN parentSwipeData :
            parentSwipeData[p].currentSwipeIndex = -1
            <=> nodeData[FirstChild(p)].msg \notin VariantPool(FirstChild(p))

----------------------------------------------------------------------------
(* Tags of the stored alternates. *)

\* the stored alternate sw carries tag k on its node and on its edge
TaggedWith(sw, k) == sw.node.swipeId = k /\ sw.edge.swipeId = k

\* C21: every alternate node/edge pair stored for a parent is tagged with the
\* position its text has in the alternate-text list of a member of the
\* partition that contributed it, also when two or more members of the
\* partition carry an alternate-text list.
C21_TaggedWithMemberPosition ==
    Returned =>
        \A p \in DOMAIN parentSwipeData :
            \A i \in DOMAIN parentSwipeData[p].storedSwipes :
                LET sw == parentSwipeData[p].storedSwipes[i]
                IN \E m \in MembersOf(ContributorOf(sw)) :
                      \E k \in DOMAIN m.swipes :
                          m.swipes[k] = sw.node.msg /\ TaggedWith(sw, k - 1)

\* the same for the partitions in which one member only carries alternates
C21_SingleListTagged ==
    Returned =>
        \A p \in DOMAIN parentSwipeData :
            \A i \in DOMAIN parentSwipeData[p].storedSwipes :
                LET sw == parentSwipeData[p].storedSwipes[i]
                    lists == { m \in MembersOf(ContributorOf(sw)) : m.swipes # <<>> }
                IN Cardinality(lists) = 1 =>
                      \E m \in lists : TaggedWith(sw, IndexOf(m.swipes, sw.node.msg))

----------------------------------------------------------------------------
(* Membership maps. *)

\* the positions in chatHistory of the logs whose message at depth d has the
\* given text
LogsWithText(d, text) ==
    { k \in DOMAIN chatHistory :
        /\ d \in DepthsOf(chatHistory[k])
        /\ chatHistory[k].messages[d + 1].mes # MesUndefined
        /\ NormalizeNewlines(chatHistory[k].messages[d + 1].mes) = text }

\* the positions in chatHistory of the logs that hold a message at depth d
LogsWithDepth(d) == { k \in DOMAIN chatHistory : d \in DepthsOf(chatHistory[k]) }

\* how many positions of S come before k
PositionAmong(S, k) == Cardinality({ j \in S : j < k })

\* the membership map of node n has the logs of positions S as its keys, and
\* the entry of each records the node's depth, the log's position among the
\* logs of positions P, and the log's length
MembershipMap(n, S, P) ==
    /\ DOMAIN nodeData[n].chat_sessions = { chatHistory[k].file_name : k \in S }
    /\ \A k \in S :
          LET entry == nodeData[n].chat_sessions[chatHistory[k].file_name]
          IN /\ entry.messageId = nodeData[n].chat_depth
             /\ entry.indexInGroup = PositionAmong(P, k)
             /\ entry.length = Len(chatHistory[k].messages)

\* C22: the keys of a node's membership map are exactly the logs whose
\* message at the node's depth has the node's text, and the entry of each
\* such log records the node's depth, the position of the log's message among
\* the members of the node's partition, and the number of messages of the log.
C22_MembershipMap ==
    Returned =>
        \A n \in MessageNodes :
            LET members == LogsWithText(nodeData[n].chat_depth, nodeData[n].msg)
            IN MembershipMap(n, members, members)

\* the same with the position counted among all messages of the depth
C22_PositionInDepth ==
    Returned =>
        \A n \in MessageNodes :
            MembershipMap(n, LogsWithText(nodeData[n].chat_depth, nodeData[n].msg),
                          LogsWithDepth(nodeData[n].chat_depth))

----------------------------------------------------------------------------
(* Identifiers. *)

\* the id of the i-th element of the returned list
ElementId(i) ==
    IF cyElements[i].group = "nodes" THEN nodeData[cyElements[i].ref].id
    ELSE edgeData[cyElements[i].ref].id

\* the stored alternates as <<parent, position>> pairs
StoredPairs ==
    UNION { { <<p, i>> : i \in DOMAIN parentSwipeData[p].storedSwipes } :
              p \in DOMAIN parentSwipeData }

StoredAt(s) == parentSwipeData[s[1]].storedSwipes[s[2]]

\* the ids of the stored alternates differ from each other and from the ids
\* of the elements of the graph
StoredIdsUnique ==
    /\ \A s, t \in StoredPairs :
          /\ StoredAt(s).node.id # StoredAt(t).edge.id
          /\ s # t => /\ StoredAt(s).node.id # StoredAt(t).node.id
                      /\ StoredAt(s).edge.id # StoredAt(t).edge.id
    /\ \A s \in StoredPairs : \A i \in DOMAIN cyElements :
          StoredAt(s).node.id # ElementId(i) /\ StoredAt(s).edge.id # ElementId(i)

\* C23: no two elements of the returned element list have the same id, also
\* when a partition has two or more contributing logs, and the ids of the
\* stored alternate nodes and edges differ from each other and from the ids of
\* the elements of the graph.
C23_UniqueIds ==
    Returned =>
        /\ \A i, j \in DOMAIN cyElements : i # j => ElementId(i) # ElementId(j)
        /\ StoredIdsUnique

\* the same for the edges and the stored alternates only, with every id in the
\* list naming one data object
C23_UniqueButNodes ==
    Returned =>
        /\ \A i, j \in EdgeElements(cyElements) : i # j => ElementId(i) # ElementId(j)
        /\ \A i \in NodeElements(cyElements) : \A j \in EdgeElements(cyElements) :
              ElementId(i) # ElementId(j)
        /\ StoredIdsUnique

----------------------------------------------------------------------------
(* Checkpoints of partitions with several links. *)

\* the log a message's checkpoint link names: the explicit field, else the
\* target of the legacy anchor
LinkTarget(message) ==
    IF HasBookmarkLink(message) THEN message.bookmark_link
    ELSE LegacyAnchorTarget(message.mes)

\* the message carries a checkpoint link to a log of this invocation
LiveLink(message) ==
    /\ IsBookmarkMessage(message)
    /\ ~IsDeadLink(TRUE, LinkTarget(message), ChatLengths(chatHistory))

\* C24: a node is marked as a checkpoint whenever a member of its partition
\* carries a checkpoint link to a known log, whether or not an earlier member
\* of the partition carries a checkpoint link to an unknown log.
C24_LiveLinkMarks ==
    Returned =>
        \A n \in MessageNodes :
            (\E m \in MembersOf(n) : LiveLink(m)) => nodeData[n].isBookmark

\* the first member, in the order of the logs, of the partition of node n
\* that carries a checkpoint link
FirstLinked(n) ==
    LET linked == { k \in DOMAIN chatHistory :
                      /\ chatHistory[k].file_name \in DOMAIN nodeData[n].chat_sessions
                      /\ IsBookmarkMessage(
                             chatHistory[k].messages[nodeData[n].chat_depth + 1]) }
    IN chatHistory[CHOOSE k \in linked : \A j \in linked : k <= j]
           .messages[nodeData[n].chat_depth + 1]

\* a node is a checkpoint exactly when the first member with a checkpoint
\* link links to a known log
C24_FirstLinkDecides ==
    Returned =>
        \A n \in MessageNodes :
            nodeData[n].isBookmark <=>
                /\ \E m \in MembersOf(n) : IsBookmarkMessage(m)
                /\ LiveLink(FirstLinked(n))

----------------------------------------------------------------------------
(* Thickness and z-order along a trace. *)

\* min(4 + 0.1 * k, 6) as JavaScript evaluates it for k up to 25: the double
\* nearest to 4 + k/10, capped at 6.  k/10 is k * (112589990684262 + 4/10)
\* units, and (4 * k + 5) \div 10 is 4 * k / 10 rounded to the nearest whole.
FormulaThickness(k) ==
    LET lo == (k * ThicknessStep.units[2]) + (((4 * k) + 5) \div 10)
    IN MathMin(<<Whole(BaseThickness)[1] + (k * ThicknessStep.units[1]) + (lo \div (2^26)),
                 lo % (2^26)>>,
               Whole(MaxThickness))

\* by how many units y is above x, for doubles less than a limb apart
UnitsAbove(x, y) == ((y[1] - x[1]) * (2^26)) + (y[2] - x[2])

\* the entries of the log that follow entry i in the same trace
NextHops(i) ==
    { j \in DOMAIN hlLog : /\ hlLog[j].tracer = hlLog[i].tracer
                           /\ hlLog[j].hop = hlLog[i].hop + 1 }

\* C25 as stated: the k-th edge highlighted along the trace of a checkpoint
\* is given thickness min(4 + 0.1 * k, 6) and z-order 1000 + k.
C25_ThicknessFormula ==
    \A i \in DOMAIN hlLog :
        /\ hlLog[i].thickness = FormulaThickness(hlLog[i].hop)
        /\ hlLog[i].zIndex = ZIndexBase + hlLog[i].hop

\* C25 as amended: the k-th edge highlighted along the trace of a checkpoint
\* is given z-order 1000 + k and a thickness that is 4 for k = 0, is at most
\* min(4 + 0.1 * k, 6) and at most k units of 2^-50 below it, never decreases
\* from one hop to the next, never exceeds 6 and is 6 from k = 21 on.
C25_ThicknessAccumulated ==
    \A i \in DOMAIN hlLog :
        LET k == hlLog[i].hop
            t == hlLog[i].thickness
        IN /\ hlLog[i].zIndex = ZIndexBase + k
           /\ k = 0 => t = Whole(BaseThickness)
           /\ ~LessDouble(Whole(MaxThickness), t)
           /\ ~LessDouble(FormulaThickness(k), t)
           /\ UnitsAbove(t, FormulaThickness(k)) <= k
           /\ k >= 21 => t = Whole(MaxThickness)
           /\ \A j \in NextHops(i) : ~LessDouble(hlLog[j].thickness, t)

\* a finished run with a trace of more than 22 hops: its edge 20 is given
\* less than 6 and its edge 22 is given 6
C25_Witness ==
    /\ pc = "done"
    /\ \E i, j \in DOMAIN hlLog :
          /\ hlLog[i].tracer = hlLog[j].tracer
          /\ hlLog[i].hop = 20 /\ LessDouble(hlLog[i].thickness, Whole(MaxThickness))
          /\ hlLog[j].hop = 22 /\ hlLog[j].thickness = Whole(MaxThickness)

====
